---- MODULE Spec2Model ----
(***************************************************************************)
(* Model of the zj-quit confirmation overlay (src/src/main.rs).            *)
(*                                                                         *)
(* The plugin state is the `State` struct; the host calls `load` once and  *)
(* then delivers events one at a time to `update`.  Every host primitive   *)
(* a handler calls is recorded, in call order, in `calls`.                 *)
(***************************************************************************)
EXTENDS Integers, Sequences, FiniteSets, TLC

\* ------------------------------------------------------------------ bounds
\* highest tab position named by a notification (positions are 0..MaxTab)
MaxTab == 1
\* highest pane id named by a notification (ids are 0..MaxPaneId)
MaxPaneId == 1
\* longest pane list a manifest holds for one tab
MaxPanes == 1
\* longest tab list of one tab notification
MaxTabInfos == 2
\* render is given 0..MaxRows rows and 0 or MaxCols columns
MaxRows == 6
MaxCols == 80

\* ------------------------------------------------------------ value spaces
\* Option<T>: None is the empty sequence, Some(x) the one-element sequence
None == <<>>
Some(x) == <<x>>

Actions == {"QuitSession", "ClosePane", "CloseTab"}

BareKeys == {"Enter", "Esc"}
KeyModifiers == {"Ctrl"}
\* KeyWithModifier: a bare key and a set of modifiers, compared structurally
Keys == [bare_key : BareKeys, key_modifiers : SUBSET KeyModifiers]
KeyWithModifier_new(b) == [bare_key |-> b, key_modifiers |-> {}]

Tabs == 0..MaxTab
PaneNumbers == 0..MaxPaneId
PaneIds == [tag : {"Terminal", "Plugin"}, id : PaneNumbers]
PaneId_Terminal(i) == [tag |-> "Terminal", id |-> i]
PaneId_Plugin(i) == [tag |-> "Plugin", id |-> i]
\* the pane the overlay itself runs in (a plugin pane of the host)
SelfPane == PaneId_Plugin(0)

\* sequences over S of length at most n
SeqUpTo(S, n) == UNION {[1..k -> S] : k \in 0..n}

TabInfo == [position : Tabs, active : BOOLEAN]
TabInfos == SeqUpTo(TabInfo, MaxTabInfos)

PaneInfo == [id : PaneNumbers, is_focused : BOOLEAN, is_plugin : BOOLEAN]
PaneLists == SeqUpTo(PaneInfo, MaxPanes)
\* PaneManifest.panes: a map from tab position to pane list; a tab without
\* an entry maps to None
PaneManifests == [Tabs -> {None} \cup {Some(l) : l \in PaneLists}]

\* ------------------------------------------------------------------- state
VARIABLES
    pc,                 \* "constructed" before load, "loaded" after,
                        \* "panicked" once a handler run has panicked
    confirm_key,        \* State.confirm_key
    cancel_key,         \* State.cancel_key
    action,             \* State.action
    target_pane_id,     \* State.target_pane_id : Option<PaneId>
    target_tab_index,   \* State.target_tab_index : Option<usize>
    pane_info_received, \* State.pane_info_received
    lastEvent,          \* the event the last handler run was given
    calls,              \* host primitives that run called, in call order
    closedPane,         \* the pane the host closed for that run, if any
    focusedBefore       \* the pane focused before the overlay opened

vars == <<pc, confirm_key, cancel_key, action, target_pane_id,
          target_tab_index, pane_info_received, lastEvent, calls,
          closedPane, focusedBefore>>

stateFields == <<confirm_key, cancel_key, action, target_pane_id,
                 target_tab_index, pane_info_received>>

\* ---------------------------------------------------------- host primitives
Call(f) == [fn |-> f, arg |-> None]
CallWith(f, a) == [fn |-> f, arg |-> Some(a)]

TerminateOrClose ==
    {"quit_zellij", "close_pane_with_id", "close_focus", "close_focused_tab"}

\* the names of the primitives in a call sequence
Called(cs) == {cs[i].fn : i \in 1..Len(cs)}
\* the position of the first call of f in cs, 0 when there is none
FirstCall(cs, f) ==
    IF f \in Called(cs)
    THEN CHOOSE i \in 1..Len(cs) : cs[i].fn = f /\ \A j \in 1..(i-1) : cs[j].fn # f
    ELSE 0

\* --------------------------------------------------------------- events
\* lastEvent records the kind of the event, the key of a key event, and for
\* a notification what it named as focused: the position of the focused tab
\* (tab notification) or the focused pane found under the stored tab
\* (pane notification), None when it named none.  Two more fields keep
\* history: `decided` tells whether a confirm or cancel key press had been
\* handled before this event, and `configuration` holds the configuration
\* load was given (None for every other event).  For a pane notification,
\* `underTab` is the set of focused panes it lists under the stored tab and
\* `elsewhere` the set of focused panes it lists under the other tabs.
NoKey == [bare_key |-> "none", key_modifiers |-> {}]
\* a confirm or cancel key press has been handled so far
Decided ==
    \/ lastEvent.decided
    \/ lastEvent.kind = "Key" /\ lastEvent.key \in {confirm_key, cancel_key}
NoEvent ==
    [kind |-> "none", key |-> NoKey, focused |-> None, decided |-> FALSE,
     configuration |-> None, underTab |-> {}, elsewhere |-> {}]
LoadEvent(configuration) ==
    [kind |-> "load", key |-> NoKey, focused |-> None, decided |-> FALSE,
     configuration |-> Some(configuration), underTab |-> {},
     elsewhere |-> {}]
KeyEvent(k) ==
    [kind |-> "Key", key |-> k, focused |-> None, decided |-> Decided,
     configuration |-> None, underTab |-> {}, elsewhere |-> {}]
NonKeyEvent(kind) ==
    [kind |-> kind, key |-> NoKey, focused |-> None, decided |-> Decided,
     configuration |-> None, underTab |-> {}, elsewhere |-> {}]
Notification(kind, f) ==
    [kind |-> kind, key |-> NoKey, focused |-> f, decided |-> Decided,
     configuration |-> None, underTab |-> {}, elsewhere |-> {}]

\* ----------------------------------------------------- Action::from_config
UpperCase == <<"A","B","C","D","E","F","G","H","I","J","K","L","M",
               "N","O","P","Q","R","S","T","U","V","W","X","Y","Z">>
LowerCase == <<"a","b","c","d","e","f","g","h","i","j","k","l","m",
               "n","o","p","q","r","s","t","u","v","w","x","y","z">>
\* char::to_lowercase on the ASCII letters
to_lowercase_char(c) ==
    IF \E i \in 1..26 : UpperCase[i] = c
    THEN LowerCase[CHOOSE i \in 1..26 : UpperCase[i] = c]
    ELSE c
\* str::to_lowercase; a string is its sequence of characters
to_lowercase(s) == [i \in 1..Len(s) |-> to_lowercase_char(s[i])]

ClosePaneAliases ==
    { <<"c","l","o","s","e","_","p","a","n","e">>,
      <<"c","l","o","s","e","p","a","n","e">>,
      <<"p","a","n","e">> }
CloseTabAliases ==
    { <<"c","l","o","s","e","_","t","a","b">>,
      <<"c","l","o","s","e","t","a","b">>,
      <<"t","a","b">> }

\* from_config with the catch-all arm merged into the CloseTab arm
from_config_DefaultCloseTab(s) ==
    LET l == to_lowercase(s) IN
    IF l \in ClosePaneAliases THEN "ClosePane"
    ELSE IF l \in {<<"q","u","i","t">>,
                   <<"q","u","i","t","_","s","e","s","s","i","o","n">>,
                   <<"s","e","s","s","i","o","n">>} THEN "QuitSession"
    ELSE "CloseTab"

\* from_config matching the raw string, without to_lowercase
from_config_CaseSensitive(s) ==
    IF s \in ClosePaneAliases THEN "ClosePane"
    ELSE IF s \in CloseTabAliases THEN "CloseTab"
    ELSE "QuitSession"

from_config(s) ==
    LET l == to_lowercase(s) IN
    IF l \in ClosePaneAliases THEN "ClosePane"
    ELSE IF l \in CloseTabAliases THEN "CloseTab"
    ELSE "QuitSession"

\* the `action` strings a configuration supplies in this model
ActionStrings ==
    { <<"c","l","o","s","e","_","p","a","n","e">>,
      <<"C","l","o","s","e","P","a","n","e">>,
      <<"P","A","N","E">>,
      <<"c","l","o","s","e","_","t","a","b">>,
      <<"C","L","O","S","E","T","A","B">>,
      <<"T","a","b">>,
      <<"q","u","i","t">>,
      <<"p","a","n","e","s">>,
      <<"t","a","b","_">>,
      <<>> }

\* ------------------------------------------- KeyWithModifier: FromStr
\* A key string is its sequence of whitespace-separated tokens: the last
\* names the bare key, the ones before it name modifiers; an empty string
\* or an unknown token fails (None).
parse_key(tokens) ==
    IF Len(tokens) = 0 THEN None
    ELSE LET last == tokens[Len(tokens)]
             mods == {tokens[i] : i \in 1..(Len(tokens) - 1)}
         IN IF last \in BareKeys /\ mods \subseteq KeyModifiers
            THEN Some([bare_key |-> last, key_modifiers |-> mods])
            ELSE None

\* Result::unwrap_or
unwrap_or(r, d) == IF r = None THEN d ELSE r[1]

\* the key strings a configuration supplies in this model
KeyStrings ==
    { <<"Esc">>, <<"Ctrl", "Esc">>, <<"Hyper", "Esc">>, <<"bogus">>, <<>> }

\* a configuration: each of the three keys is absent (None) or a string
Configurations ==
    [confirm_key : {None} \cup {Some(s) : s \in KeyStrings},
     cancel_key  : {None} \cup {Some(s) : s \in KeyStrings},
     action      : {None} \cup {Some(s) : s \in ActionStrings}]

\* ------------------------------------------------------ zellij-tile helpers
\* get_focused_tab: the first tab descriptor whose active flag is set
get_focused_tab(tab_infos) ==
    IF \E i \in 1..Len(tab_infos) : tab_infos[i].active
    THEN Some(tab_infos[CHOOSE i \in 1..Len(tab_infos) :
                 /\ tab_infos[i].active
                 /\ \A j \in 1..(i-1) : ~tab_infos[j].active])
    ELSE None

\* get_focused_pane: the first focused pane listed under tab_position.
\* main.rs:111 describes the helper as finding the focused non-plugin pane,
\* yet main.rs:114 handles a plugin result; nonPluginOnly selects which of
\* the two the linked helper does.
get_focused_pane(tab_position, pane_manifest, nonPluginOnly) ==
    LET entry == IF tab_position \in DOMAIN pane_manifest
                 THEN pane_manifest[tab_position] ELSE None
        panes == IF entry = None THEN <<>> ELSE entry[1]
        Hit(i) == panes[i].is_focused /\ (nonPluginOnly => ~panes[i].is_plugin)
    IN IF \E i \in 1..Len(panes) : Hit(i)
       THEN Some(panes[CHOOSE i \in 1..Len(panes) :
                    Hit(i) /\ \A j \in 1..(i-1) : ~Hit(j)])
       ELSE None

\* ------------------------------------------------------------------ Init
\* State::default
Init ==
    /\ pc = "constructed"
    /\ confirm_key = KeyWithModifier_new("Enter")
    /\ cancel_key = KeyWithModifier_new("Esc")
    /\ action = "QuitSession"
    /\ target_pane_id = None
    /\ target_tab_index = None
    /\ pane_info_received = FALSE
    /\ lastEvent = NoEvent
    /\ calls = <<>>
    /\ closedPane = None
    /\ focusedBefore \in PaneIds \ {SelfPane}

\* ------------------------------------------------------------------ load
\* load with the cancel_key fallback copied from the confirm_key lines
Load_CancelFallsBackToConfirm(configuration) ==
    /\ pc = "constructed"
    /\ pc' = "loaded"
    /\ confirm_key' =
         IF configuration.confirm_key # None
         THEN unwrap_or(parse_key(configuration.confirm_key[1]), confirm_key)
         ELSE confirm_key
    /\ cancel_key' =
         IF configuration.cancel_key # None
         THEN unwrap_or(parse_key(configuration.cancel_key[1]), confirm_key)
         ELSE cancel_key
    /\ action' =
         IF configuration.action # None
         THEN from_config(configuration.action[1])
         ELSE action
    /\ lastEvent' = LoadEvent(configuration)
    /\ calls' = <<Call("request_permission"), Call("subscribe")>>
    /\ closedPane' = None
    /\ UNCHANGED <<target_pane_id, target_tab_index, pane_info_received,
                   focusedBefore>>

Load(configuration) ==
    /\ pc = "constructed"
    /\ pc' = "loaded"
    /\ confirm_key' =
         IF configuration.confirm_key # None
         THEN unwrap_or(parse_key(configuration.confirm_key[1]), confirm_key)
         ELSE confirm_key
    /\ cancel_key' =
         IF configuration.cancel_key # None
         THEN unwrap_or(parse_key(configuration.cancel_key[1]), cancel_key)
         ELSE cancel_key
    /\ action' =
         IF configuration.action # None
         THEN from_config(configuration.action[1])
         ELSE action
    /\ lastEvent' = LoadEvent(configuration)
    /\ calls' = <<Call("request_permission"), Call("subscribe")>>
    /\ closedPane' = None
    /\ UNCHANGED <<target_pane_id, target_tab_index, pane_info_received,
                   focusedBefore>>

\* -------------------------------------------------------- execute_action
\* execute_action with the QuitSession arm taking the CloseTab arm's calls
execute_action_QuitClosesTab ==
    CASE action = "QuitSession" -> <<Call("hide_self"), Call("close_focused_tab")>>
      [] action = "ClosePane" ->
           IF target_pane_id # None
           THEN <<Call("hide_self"), CallWith("close_pane_with_id", target_pane_id[1])>>
           ELSE <<Call("hide_self"), Call("close_focus")>>
      [] action = "CloseTab" -> <<Call("hide_self"), Call("close_focused_tab")>>

\* execute_action closing the focused pane whatever pane was stored
execute_action_AlwaysCloseFocus ==
    CASE action = "QuitSession" -> <<Call("quit_zellij")>>
      [] action = "ClosePane" -> <<Call("hide_self"), Call("close_focus")>>
      [] action = "CloseTab" -> <<Call("hide_self"), Call("close_focused_tab")>>

\* execute_action closing the stored pane before hiding the overlay
execute_action_CloseBeforeHide ==
    CASE action = "QuitSession" -> <<Call("quit_zellij")>>
      [] action = "ClosePane" ->
           IF target_pane_id # None
           THEN <<CallWith("close_pane_with_id", target_pane_id[1]), Call("hide_self")>>
           ELSE <<Call("hide_self"), Call("close_focus")>>
      [] action = "CloseTab" -> <<Call("hide_self"), Call("close_focused_tab")>>

\* execute_action without the close_focus fallback
execute_action_NoFallback ==
    CASE action = "QuitSession" -> <<Call("quit_zellij")>>
      [] action = "ClosePane" ->
           IF target_pane_id # None
           THEN <<Call("hide_self"), CallWith("close_pane_with_id", target_pane_id[1])>>
           ELSE <<Call("hide_self")>>
      [] action = "CloseTab" -> <<Call("hide_self"), Call("close_focused_tab")>>

\* execute_action closing the tab before hiding the overlay
execute_action_TabCloseBeforeHide ==
    CASE action = "QuitSession" -> <<Call("quit_zellij")>>
      [] action = "ClosePane" ->
           IF target_pane_id # None
           THEN <<Call("hide_self"), CallWith("close_pane_with_id", target_pane_id[1])>>
           ELSE <<Call("hide_self"), Call("close_focus")>>
      [] action = "CloseTab" -> <<Call("close_focused_tab"), Call("hide_self")>>

\* execute_action with the CloseTab arm not hiding the overlay
execute_action_TabNoHide ==
    CASE action = "QuitSession" -> <<Call("quit_zellij")>>
      [] action = "ClosePane" ->
           IF target_pane_id # None
           THEN <<Call("hide_self"), CallWith("close_pane_with_id", target_pane_id[1])>>
           ELSE <<Call("hide_self"), Call("close_focus")>>
      [] action = "CloseTab" -> <<Call("close_focused_tab")>>

execute_action ==
    CASE action = "QuitSession" -> <<Call("quit_zellij")>>
      [] action = "ClosePane" ->
           IF target_pane_id # None
           THEN <<Call("hide_self"), CallWith("close_pane_with_id", target_pane_id[1])>>
           ELSE <<Call("hide_self"), Call("close_focus")>>
      [] action = "CloseTab" -> <<Call("hide_self"), Call("close_focused_tab")>>

\* KeyCalls executing the action on every key but the cancel key
KeyCalls_ConfirmOnAnyKey(key) ==
    IF cancel_key = key THEN <<Call("hide_self")>>
    ELSE execute_action

\* KeyCalls matching a key event on its bare key alone, modifiers ignored
KeyCalls_BareKeyOnly(key) ==
    IF confirm_key.bare_key = key.bare_key THEN execute_action
    ELSE IF cancel_key.bare_key = key.bare_key THEN <<Call("hide_self")>>
    ELSE <<>>

\* KeyCalls of a controller that stops acting once a confirm or cancel key
\* press has been handled
KeyCalls_Terminal(key) ==
    IF Decided THEN <<>>
    ELSE IF confirm_key = key THEN execute_action
    ELSE IF cancel_key = key THEN <<Call("hide_self")>>
    ELSE <<>>

\* the calls update makes for a key event
KeyCalls(key) ==
    IF confirm_key = key THEN execute_action
    ELSE IF cancel_key = key THEN <<Call("hide_self")>>
    ELSE <<>>

\* the pane the host closes for a call sequence, when focusedNow is the pane
\* the host holds focused while the calls are made
ClosedBy(cs, focusedNow) ==
    IF "close_pane_with_id" \in Called(cs)
    THEN cs[FirstCall(cs, "close_pane_with_id")].arg
    ELSE IF "close_focus" \in Called(cs) THEN Some(focusedNow)
    ELSE None

\* ---------------------------------------------------------------- update
\* Event::Key
UpdateKey(key, focusedNow) ==
    /\ pc = "loaded"
    /\ lastEvent' = KeyEvent(key)
    /\ calls' = KeyCalls(key)
    /\ closedPane' = ClosedBy(KeyCalls(key), focusedNow)
    /\ UNCHANGED <<pc, stateFields, focusedBefore>>

\* the tagged PaneId of a pane descriptor
PaneIdOf(pane_info) ==
    IF pane_info.is_plugin
    THEN PaneId_Plugin(pane_info.id)
    ELSE PaneId_Terminal(pane_info.id)

\* the pane a manifest names as focused under the stored tab, if any
NamedPane(pane_manifest, nonPluginOnly) ==
    IF target_tab_index = None THEN None
    ELSE LET found == get_focused_pane(target_tab_index[1], pane_manifest,
                                       nonPluginOnly)
         IN IF found = None THEN None ELSE Some(PaneIdOf(found[1]))

\* the tagged ids of the panes a manifest entry lists as focused
FocusedPanesIn(entry) ==
    IF entry = None THEN {}
    ELSE {PaneIdOf(entry[1][i]) :
             i \in {j \in 1..Len(entry[1]) : entry[1][j].is_focused}}

\* the focused panes a manifest lists under the stored tab
FocusedUnderTab(pane_manifest) ==
    IF target_tab_index = None \/ target_tab_index[1] \notin DOMAIN pane_manifest
    THEN {}
    ELSE FocusedPanesIn(pane_manifest[target_tab_index[1]])

\* the focused panes a manifest lists under the tabs other than the stored one
FocusedElsewhere(pane_manifest) ==
    UNION {FocusedPanesIn(pane_manifest[t]) :
              t \in {x \in DOMAIN pane_manifest : target_tab_index # Some(x)}}

\* the record of a pane notification
PaneNotification(pane_manifest, nonPluginOnly) ==
    [kind |-> "PaneUpdate", key |-> NoKey,
     focused |-> NamedPane(pane_manifest, nonPluginOnly),
     decided |-> Decided, configuration |-> None,
     underTab |-> FocusedUnderTab(pane_manifest),
     elsewhere |-> FocusedElsewhere(pane_manifest)]

\* the tab position a tab notification names as focused, if any
NamedTab(tab_infos) ==
    LET focused_tab == get_focused_tab(tab_infos)
    IN IF focused_tab = None THEN None ELSE Some(focused_tab[1].position)

\* Event::PaneUpdate without the pane_info_received test
UpdatePaneUpdate_NoLatch(pane_manifest, nonPluginOnly) ==
    /\ pc = "loaded"
    /\ IF action = "ClosePane"
       THEN /\ target_pane_id' =
                 IF NamedPane(pane_manifest, nonPluginOnly) # None
                 THEN NamedPane(pane_manifest, nonPluginOnly)
                 ELSE target_pane_id
            /\ pane_info_received' = TRUE
       ELSE UNCHANGED <<target_pane_id, pane_info_received>>
    /\ lastEvent' = PaneNotification(pane_manifest, nonPluginOnly)
    /\ calls' = <<>>
    /\ closedPane' = None
    /\ UNCHANGED <<pc, confirm_key, cancel_key, action, target_tab_index,
                   focusedBefore>>

\* Event::PaneUpdate without the test that the action is ClosePane
UpdatePaneUpdate_AnyAction(pane_manifest, nonPluginOnly) ==
    /\ pc = "loaded"
    /\ IF ~pane_info_received
       THEN /\ target_pane_id' =
                 IF NamedPane(pane_manifest, nonPluginOnly) # None
                 THEN NamedPane(pane_manifest, nonPluginOnly)
                 ELSE target_pane_id
            /\ pane_info_received' = TRUE
       ELSE UNCHANGED <<target_pane_id, pane_info_received>>
    /\ lastEvent' = PaneNotification(pane_manifest, nonPluginOnly)
    /\ calls' = <<>>
    /\ closedPane' = None
    /\ UNCHANGED <<pc, confirm_key, cancel_key, action, target_tab_index,
                   focusedBefore>>

\* Event::PaneUpdate looking for a focused pane under every tab when the
\* stored tab lists none
UpdatePaneUpdate_AnyTab(pane_manifest, nonPluginOnly) ==
    /\ pc = "loaded"
    /\ IF ~pane_info_received /\ action = "ClosePane"
       THEN /\ target_pane_id' =
                 IF NamedPane(pane_manifest, nonPluginOnly) # None
                 THEN NamedPane(pane_manifest, nonPluginOnly)
                 ELSE IF target_tab_index # None
                         /\ FocusedElsewhere(pane_manifest) # {}
                 THEN Some(CHOOSE p \in FocusedElsewhere(pane_manifest) : TRUE)
                 ELSE target_pane_id
            /\ pane_info_received' = TRUE
       ELSE UNCHANGED <<target_pane_id, pane_info_received>>
    /\ lastEvent' = PaneNotification(pane_manifest, nonPluginOnly)
    /\ calls' = <<>>
    /\ closedPane' = None
    /\ UNCHANGED <<pc, confirm_key, cancel_key, action, target_tab_index,
                   focusedBefore>>

\* Event::PaneUpdate
UpdatePaneUpdate(pane_manifest, nonPluginOnly) ==
    /\ pc = "loaded"
    /\ IF ~pane_info_received /\ action = "ClosePane"
       THEN /\ target_pane_id' =
                 IF target_tab_index # None
                 THEN LET found == get_focused_pane(target_tab_index[1],
                                                    pane_manifest, nonPluginOnly)
                      IN IF found # None
                         THEN IF found[1].is_plugin
                              THEN Some(PaneId_Plugin(found[1].id))
                              ELSE Some(PaneId_Terminal(found[1].id))
                         ELSE target_pane_id
                 ELSE target_pane_id
            /\ pane_info_received' = TRUE
       ELSE UNCHANGED <<target_pane_id, pane_info_received>>
    /\ lastEvent' = PaneNotification(pane_manifest, nonPluginOnly)
    /\ calls' = <<>>
    /\ closedPane' = None
    /\ UNCHANGED <<pc, confirm_key, cancel_key, action, target_tab_index,
                   focusedBefore>>

\* Event::TabUpdate without the is_none test
UpdateTabUpdate_NoLatch(tab_infos) ==
    /\ pc = "loaded"
    /\ target_tab_index' =
         IF NamedTab(tab_infos) # None
         THEN NamedTab(tab_infos)
         ELSE target_tab_index
    /\ lastEvent' = Notification("TabUpdate", NamedTab(tab_infos))
    /\ calls' = <<>>
    /\ closedPane' = None
    /\ UNCHANGED <<pc, confirm_key, cancel_key, action, target_pane_id,
                   pane_info_received, focusedBefore>>

\* Event::TabUpdate storing the focused descriptor's index in the list
\* instead of its position field
UpdateTabUpdate_StoresListIndex(tab_infos) ==
    /\ pc = "loaded"
    /\ target_tab_index' =
         IF target_tab_index = None /\ NamedTab(tab_infos) # None
         THEN Some((CHOOSE i \in 1..Len(tab_infos) :
                      /\ tab_infos[i].active
                      /\ \A j \in 1..(i-1) : ~tab_infos[j].active) - 1)
         ELSE target_tab_index
    /\ lastEvent' = Notification("TabUpdate", NamedTab(tab_infos))
    /\ calls' = <<>>
    /\ closedPane' = None
    /\ UNCHANGED <<pc, confirm_key, cancel_key, action, target_pane_id,
                   pane_info_received, focusedBefore>>

\* Event::TabUpdate
UpdateTabUpdate(tab_infos) ==
    /\ pc = "loaded"
    /\ target_tab_index' =
         IF target_tab_index = None
         THEN LET focused_tab == get_focused_tab(tab_infos)
              IN IF focused_tab # None
                 THEN Some(focused_tab[1].position)
                 ELSE target_tab_index
         ELSE target_tab_index
    /\ lastEvent' = Notification("TabUpdate", NamedTab(tab_infos))
    /\ calls' = <<>>
    /\ closedPane' = None
    /\ UNCHANGED <<pc, confirm_key, cancel_key, action, target_pane_id,
                   pane_info_received, focusedBefore>>

\* any other event: the `_ => ()` arm
UpdateOther ==
    /\ pc = "loaded"
    /\ lastEvent' = NonKeyEvent("Other")
    /\ calls' = <<>>
    /\ closedPane' = None
    /\ UNCHANGED <<pc, stateFields, focusedBefore>>

\* ------------------------------------------------------------------ render
\* usize on the plugin's wasm32 target is 32 bits wide; a usize is kept as
\* two 16-bit limbs, its value being hi * 2^16 + lo
LimbBase == 2^16
usize(n) == [hi |-> n \div LimbBase, lo |-> n % LimbBase]
\* a - b on usize with overflow checks off: the difference modulo 2^32
\* (for a and b below 2^16)
wrapping_sub(a, b) ==
    IF a >= b
    THEN usize(a - b)
    ELSE [hi |-> LimbBase - 1, lo |-> LimbBase - (b - a)]
\* a.saturating_sub(b)
saturating_sub(a, b) == IF a >= b THEN a - b ELSE 0

\* the number of characters of a number printed with {}
RECURSIVE DecimalDigits(_)
DecimalDigits(n) == IF n < 10 THEN 1 ELSE 1 + DecimalDigits(n \div 10)
\* key.to_string().chars().count(): the modifiers, each followed by a
\* space, then the bare key in capitals
to_string_count(key) ==
    (IF "Ctrl" \in key.key_modifiers THEN 5 ELSE 0)
    + (IF key.bare_key = "Enter" THEN 5 ELSE 3)

\* "[ {} ]" around action_name()
title_count ==
    CASE action = "QuitSession" -> 16
      [] action = "ClosePane" -> 14
      [] action = "CloseTab" -> 13
\* confirmation_text()
confirmation_text_count ==
    CASE action = "QuitSession" -> 43
      [] action = "ClosePane" -> 41
      [] action = "CloseTab" -> 40
\* the target line, 0 characters for QuitSession
target_info_count ==
    CASE action = "ClosePane" ->
            IF target_pane_id # None
            THEN IF target_pane_id[1].tag = "Terminal"
                 THEN 23 + DecimalDigits(target_pane_id[1].id)
                 ELSE 21 + DecimalDigits(target_pane_id[1].id)
            ELSE 22
      [] action = "CloseTab" ->
            IF target_tab_index # None
            THEN 13 + DecimalDigits(target_tab_index[1] + 1)
            ELSE 22
      [] action = "QuitSession" -> 0
\* "Help: <{}> - Confirm, <{}> - Cancel"
help_text_count ==
    31 + to_string_count(confirm_key) + to_string_count(cancel_key)

\* print_text_with_coordinates(text, x, y, None, None); y is a usize in limbs
print_text_with_coordinates(x, y) ==
    CallWith("print_text_with_coordinates", [x |-> x, y |-> y])

\* the host calls of render(rows, cols).  A subtraction on usize that goes
\* below zero panics when the build has overflow checks on (debug profile)
\* and wraps modulo 2^32 when it has them off (release profile).
render_calls(rows, cols, overflow_checks) ==
    LET panics(a, b) == overflow_checks /\ a < b
        centred(count) == saturating_sub(cols, count) \div 2
        title ==
            print_text_with_coordinates(centred(title_count),
                                        wrapping_sub(rows \div 2, 3))
        confirmation ==
            print_text_with_coordinates(centred(confirmation_text_count),
                                        wrapping_sub(rows \div 2, 1))
        info ==
            IF target_info_count # 0
            THEN <<print_text_with_coordinates(centred(target_info_count),
                                               usize(rows \div 2 + 1))>>
            ELSE <<>>
        help ==
            print_text_with_coordinates(centred(help_text_count),
                                        wrapping_sub(rows, 1))
    IN  IF panics(rows \div 2, 3) THEN <<Call("panic")>>
        ELSE IF panics(rows \div 2, 1) THEN <<title, Call("panic")>>
        ELSE IF panics(rows, 1)
             THEN <<title, confirmation>> \o info \o <<Call("panic")>>
             ELSE <<title, confirmation>> \o info \o <<help>>

\* the event record of a render run: the size it was given
RenderEvent(rows, cols) ==
    [kind |-> "render", key |-> NoKey, focused |-> None, decided |-> Decided,
     configuration |-> None, underTab |-> {}, elsewhere |-> {},
     rows |-> rows, cols |-> cols]

\* render(rows, cols): prints the overlay; a panic ends the plugin
Render(rows, cols, overflow_checks) ==
    /\ pc = "loaded"
    /\ calls' = render_calls(rows, cols, overflow_checks)
    /\ pc' = IF "panic" \in Called(calls') THEN "panicked" ELSE pc
    /\ lastEvent' = RenderEvent(rows, cols)
    /\ closedPane' = None
    /\ UNCHANGED <<stateFields, focusedBefore>>

Next ==
    \/ \E configuration \in Configurations : Load(configuration)
    \/ \E key \in Keys, focusedNow \in PaneIds : UpdateKey(key, focusedNow)
    \/ \E pane_manifest \in PaneManifests, nonPluginOnly \in BOOLEAN :
          UpdatePaneUpdate(pane_manifest, nonPluginOnly)
    \/ \E tab_infos \in TabInfos : UpdateTabUpdate(tab_infos)
    \/ UpdateOther

Spec == Init /\ [][Next]_vars

\* the plugin with its render runs: the host calls render after an update
\* and when the pane is resized
NextRender ==
    \/ Next
    \/ \E rows \in 0..MaxRows, cols \in {0, MaxCols},
          overflow_checks \in BOOLEAN : Render(rows, cols, overflow_checks)

SpecRender == Init /\ [][NextRender]_vars

\* ------------------------------------------------------------ type check
TypeOK ==
    /\ pc \in {"constructed", "loaded", "panicked"}
    /\ confirm_key \in Keys
    /\ cancel_key \in Keys
    /\ action \in Actions
    /\ target_pane_id \in {None} \cup {Some(p) : p \in PaneIds}
    /\ target_tab_index \in {None} \cup {Some(t) : t \in Tabs}
    /\ pane_info_received \in BOOLEAN
    /\ focusedBefore \in PaneIds

\* ================================================================ claims
\* the last handler run was given a key event equal to confirm_key
ConfirmHandled == lastEvent.kind = "Key" /\ lastEvent.key = confirm_key
\* the last handler run was given a key event equal to cancel_key
CancelHandled == lastEvent.kind = "Key" /\ lastEvent.key = cancel_key
\* hide_self is called, and called before the first call of f
HideThen(f) ==
    /\ FirstCall(calls, "hide_self") > 0
    /\ FirstCall(calls, f) > FirstCall(calls, "hide_self")

\* C1: a terminate or close primitive (quit_zellij, close_pane_with_id,
\* close_focus, close_focused_tab) is called only by a handler run that was
\* given a key event equal to confirm_key; load, notifications and every
\* other key call none.
C1_CloseOnlyOnConfirm ==
    (Called(calls) \cap TerminateOrClose # {}) => ConfirmHandled

\* C1 witness: a confirm key press has called a terminate or close primitive
C1_Witness ==
    ConfirmHandled /\ Called(calls) \cap TerminateOrClose # {}

\* C2 as stated: with action ClosePane, a confirm key press closes the pane
\* that was focused before the overlay opened (so never the overlay's own
\* pane and never a pane focused later).
C2_ClosesPaneFocusedBefore ==
    (ConfirmHandled /\ action = "ClosePane") => closedPane = Some(focusedBefore)

\* C2 amended: with action ClosePane, a confirm key press always closes a
\* pane; when a pane was stored it closes exactly the stored pane, whatever
\* pane the host holds focused at confirm time, and only when none was
\* stored is the pane closed the one close_focus picks.
C2_ClosesStoredPane ==
    (ConfirmHandled /\ action = "ClosePane") =>
        /\ closedPane # None
        /\ target_pane_id # None => closedPane = target_pane_id
        /\ "close_focus" \in Called(calls) => target_pane_id = None

\* C2 witness: a confirm key press closed the stored pane
C2_Witness ==
    /\ ConfirmHandled
    /\ action = "ClosePane"
    /\ target_pane_id # None
    /\ closedPane = target_pane_id

\* C3: a handler run given a key event equal to cancel_key calls hide_self
\* and calls no terminate or close primitive, for every key configuration.
C3_CancelOnlyHides ==
    CancelHandled =>
        /\ "hide_self" \in Called(calls)
        /\ Called(calls) \cap TerminateOrClose = {}

\* C4: with action QuitSession, a confirm key press calls quit_zellij and
\* none of close_pane_with_id, close_focus, close_focused_tab, whatever the
\* resolver fields hold.
C4_QuitTerminatesOnly ==
    (ConfirmHandled /\ action = "QuitSession") =>
        /\ "quit_zellij" \in Called(calls)
        /\ Called(calls) \cap
             {"close_pane_with_id", "close_focus", "close_focused_tab"} = {}

\* C4 witness: QuitSession confirmed while nothing was ever resolved
C4_Witness ==
    /\ ConfirmHandled
    /\ action = "QuitSession"
    /\ target_tab_index = None
    /\ target_pane_id = None
    /\ ~pane_info_received
    /\ "quit_zellij" \in Called(calls)

\* C5: with action ClosePane and a stored pane p, a confirm key press calls
\* hide_self strictly before close_pane_with_id, every close_pane_with_id
\* call has exactly p as argument, and close_focus is not called.
C5_HideThenCloseStored ==
    (ConfirmHandled /\ action = "ClosePane" /\ target_pane_id # None) =>
        /\ HideThen("close_pane_with_id")
        /\ \A i \in 1..Len(calls) :
              calls[i].fn = "close_pane_with_id" => calls[i].arg = target_pane_id
        /\ "close_focus" \notin Called(calls)

\* C5 witness: a stored terminal-tagged pane was closed by id on confirm
C5_Witness ==
    /\ ConfirmHandled
    /\ action = "ClosePane"
    /\ target_pane_id # None
    /\ target_pane_id[1].tag = "Terminal"
    /\ "close_pane_with_id" \in Called(calls)

\* C6: with action ClosePane and no stored pane at confirm time, a confirm
\* key press calls close_focus and does not call close_pane_with_id.
C6_FallbackWhenUnresolved ==
    (ConfirmHandled /\ action = "ClosePane" /\ target_pane_id = None) =>
        /\ "close_focus" \in Called(calls)
        /\ "close_pane_with_id" \notin Called(calls)

\* C6 witness: confirm after a pane notification was latched that named no
\* focused pane under the resolved tab
C6_Witness ==
    /\ ConfirmHandled
    /\ action = "ClosePane"
    /\ target_pane_id = None
    /\ target_tab_index # None
    /\ pane_info_received
    /\ "close_focus" \in Called(calls)

\* C7: with action CloseTab, a confirm key press calls hide_self and then
\* close_focused_tab, and no call it makes carries an argument (the stored
\* tab index is passed to no host call).
C7_HideThenCloseTab ==
    (ConfirmHandled /\ action = "CloseTab") =>
        /\ HideThen("close_focused_tab")
        /\ \A i \in 1..Len(calls) : calls[i].arg = None

\* C7 witness: CloseTab confirmed with a resolved tab index
C7_Witness ==
    /\ ConfirmHandled
    /\ action = "CloseTab"
    /\ target_tab_index # None
    /\ "close_focused_tab" \in Called(calls)

\* C8: once target_tab_index is Some(n), every step leaves it Some(n).
C8_TabLatched ==
    [][target_tab_index # None => target_tab_index' = target_tab_index]_vars

\* C8 witness: a tab notification naming another focused position was
\* handled while the index was already stored
C8_Witness ==
    /\ lastEvent.kind = "TabUpdate"
    /\ lastEvent.focused # None
    /\ target_tab_index # None
    /\ lastEvent.focused # target_tab_index

\* C9: a pane notification handled while action is ClosePane leaves
\* pane_info_received true; once it is true it stays true and
\* target_pane_id never changes again.
C9_PaneResolvedOnce ==
    [][ /\ (lastEvent'.kind = "PaneUpdate" /\ action' = "ClosePane")
             => pane_info_received'
        /\ pane_info_received =>
             (pane_info_received' /\ target_pane_id' = target_pane_id) ]_vars

\* C9 witness: after the latch, a pane notification naming a focused pane
\* other than the stored value was handled
C9_Witness ==
    /\ lastEvent.kind = "PaneUpdate"
    /\ action = "ClosePane"
    /\ pane_info_received
    /\ lastEvent.focused # None
    /\ lastEvent.focused # target_pane_id

\* C10: a pane notification handled when action is not ClosePane, or when
\* target_tab_index is None, leaves target_pane_id, pane_info_received and
\* target_tab_index unchanged.
C10_PaneNoOpBeforeTab ==
    [][ (lastEvent'.kind = "PaneUpdate"
           /\ (action # "ClosePane" \/ target_tab_index = None))
        => UNCHANGED <<target_pane_id, pane_info_received, target_tab_index>> ]_vars

\* C11: a handler run given a key event that equals neither confirm_key nor
\* cancel_key (equality is on the bare key and the whole modifier set) calls
\* no host primitive and leaves every state field unchanged.
C11_OtherKeysIgnored ==
    [][ (/\ lastEvent'.kind = "Key"
         /\ lastEvent'.key # confirm_key
         /\ lastEvent'.key # cancel_key)
        => (calls' = <<>> /\ UNCHANGED stateFields) ]_vars

\* C11 witness: a key event with the confirm key's bare key but another
\* modifier set, equal to neither binding, was handled and called nothing
C11_Witness ==
    /\ lastEvent.kind = "Key"
    /\ lastEvent.key.bare_key = confirm_key.bare_key
    /\ lastEvent.key.key_modifiers # confirm_key.key_modifiers
    /\ lastEvent.key # cancel_key
    /\ calls = <<>>

\* C12 as stated: for each of the three actions, a confirm key press results
\* in a hide_self call.
C12_ConfirmAlwaysHides ==
    ConfirmHandled => "hide_self" \in Called(calls)

\* C12 amended: a confirm key press with action ClosePane or CloseTab calls
\* hide_self first and one close primitive after it; with action QuitSession
\* it calls quit_zellij alone and never hide_self.
C12_HidesUnlessQuit ==
    ConfirmHandled =>
        IF action = "QuitSession"
        THEN calls = <<Call("quit_zellij")>>
        ELSE /\ Len(calls) = 2
             /\ calls[1] = Call("hide_self")
             /\ calls[2].fn \in TerminateOrClose \ {"quit_zellij"}

\* C12 witness: a confirm key press with action CloseTab hid the overlay
\* before closing
C12_Witness ==
    /\ ConfirmHandled
    /\ action = "CloseTab"
    /\ Len(calls) = 2
    /\ calls[1] = Call("hide_self")

\* C13 as stated: once a confirm or cancel key press has been handled, no
\* event handled afterwards calls a terminate, close or hide_self primitive.
C13_DecisionIsTerminal ==
    lastEvent.decided =>
        Called(calls) \cap (TerminateOrClose \cup {"hide_self"}) = {}

\* C13 amended: the controller keeps no Confirmed or Cancelled state.  After
\* a confirm or cancel key press has been handled, a confirm key press still
\* calls a terminate or close primitive, a cancel key press (not bound as
\* confirm too) still calls hide_self alone, and only the other events call
\* nothing.
C13_KeysStillActAfterDecision ==
    lastEvent.decided =>
        /\ ConfirmHandled => Called(calls) \cap TerminateOrClose # {}
        /\ (CancelHandled /\ ~ConfirmHandled) => calls = <<Call("hide_self")>>
        /\ (~ConfirmHandled /\ ~CancelHandled) => calls = <<>>

\* C13 witness: after an earlier confirm or cancel key press, a confirm key
\* press with action ClosePane called close_focus
C13_Witness ==
    /\ lastEvent.decided
    /\ ConfirmHandled
    /\ action = "ClosePane"
    /\ "close_focus" \in Called(calls)

\* two characters are equal, or the upper- and lower-case form of one letter
SameIgnoringCase(c, d) ==
    \/ c = d
    \/ \E i \in 1..26 : {c, d} = {UpperCase[i], LowerCase[i]}
\* string s equals, ignoring letter case, one of the strings of aliases
MatchesAlias(s, aliases) ==
    \E a \in aliases :
        /\ Len(a) = Len(s)
        /\ \A i \in 1..Len(s) : SameIgnoringCase(s[i], a[i])
\* load has just run; LoadedWith is the configuration it was given
JustLoaded == lastEvent.kind = "load"
LoadedWith == lastEvent.configuration[1]

\* C14: when the configuration has no `action` key, or its string matches
\* (ignoring case) no ClosePane or CloseTab alias, the loaded action is
\* QuitSession; every configuration loads to one of the three actions.
C14_UnmatchedIsQuitSession ==
    JustLoaded =>
        /\ action \in Actions
        /\ (\/ LoadedWith.action = None
            \/ ~MatchesAlias(LoadedWith.action[1],
                             ClosePaneAliases \cup CloseTabAliases))
           => action = "QuitSession"

\* C14 witness: a non-empty string that is no alias was loaded as QuitSession
C14_Witness ==
    /\ JustLoaded
    /\ LoadedWith.action = Some(<<"p","a","n","e","s">>)
    /\ action = "QuitSession"

\* C15: a configuration string equal, ignoring letter case, to a ClosePane
\* alias loads ClosePane, and one equal to a CloseTab alias loads CloseTab.
C15_AliasesIgnoreCase ==
    (JustLoaded /\ LoadedWith.action # None) =>
        /\ MatchesAlias(LoadedWith.action[1], ClosePaneAliases)
             => action = "ClosePane"
        /\ MatchesAlias(LoadedWith.action[1], CloseTabAliases)
             => action = "CloseTab"

\* C15 witness: the upper-case string PANE was loaded as ClosePane
C15_Witness ==
    /\ JustLoaded
    /\ LoadedWith.action = Some(<<"P","A","N","E">>)
    /\ action = "ClosePane"

\* the binding load leaves for a key string: the parsed key, or the default
\* when the string is absent or fails to parse
ExpectedBinding(keyString, default) ==
    IF keyString # None /\ parse_key(keyString[1]) # None
    THEN parse_key(keyString[1])[1]
    ELSE default

\* C16: after load, each binding is the parsed value of its string when the
\* string parses and its default (Enter for confirm, Esc for cancel)
\* otherwise, independently of the other binding, and the action is loaded
\* from the `action` string whatever the key strings are.
C16_BadKeyKeepsDefault ==
    JustLoaded =>
        /\ confirm_key = ExpectedBinding(LoadedWith.confirm_key,
                                         KeyWithModifier_new("Enter"))
        /\ cancel_key = ExpectedBinding(LoadedWith.cancel_key,
                                        KeyWithModifier_new("Esc"))
        /\ action = IF LoadedWith.action = None THEN "QuitSession"
                    ELSE from_config(LoadedWith.action[1])

\* C16 witness: a confirm_key string that fails to parse kept Enter while
\* the cancel_key string was parsed and the action string was loaded
C16_Witness ==
    /\ JustLoaded
    /\ LoadedWith.confirm_key = Some(<<"bogus">>)
    /\ LoadedWith.cancel_key = Some(<<"Ctrl", "Esc">>)
    /\ LoadedWith.action = Some(<<"T","a","b">>)
    /\ confirm_key = KeyWithModifier_new("Enter")
    /\ cancel_key = [bare_key |-> "Esc", key_modifiers |-> {"Ctrl"}]
    /\ action = "CloseTab"

\* C17: while target_tab_index is None, a tab notification sets it to the
\* position of the focused descriptor it names, and leaves it None when it
\* names none; no other event writes it.  So it is None as long as no
\* notification named a focused tab, and then holds the position named by
\* the earliest one that did, whatever the action.
C17_TabFromEarliestFocused ==
    [][ /\ (lastEvent'.kind = "TabUpdate" /\ target_tab_index = None)
             => target_tab_index' = lastEvent'.focused
        /\ lastEvent'.kind # "TabUpdate"
             => target_tab_index' = target_tab_index ]_vars

\* C17 witness: with action QuitSession, a tab notification naming position
\* 1 as focused resolved the index to 1
C17_Witness ==
    /\ action = "QuitSession"
    /\ lastEvent.kind = "TabUpdate"
    /\ lastEvent.focused = Some(1)
    /\ target_tab_index = Some(1)

\* C18: in every reachable state, target_pane_id is Some only if action is
\* ClosePane, target_tab_index is Some and pane_info_received is true.
C18_PaneNeedsTabAndLatch ==
    target_pane_id # None =>
        /\ action = "ClosePane"
        /\ target_tab_index # None
        /\ pane_info_received

\* C18 witness: a pane was stored by a pane notification
C18_Witness ==
    /\ lastEvent.kind = "PaneUpdate"
    /\ target_pane_id # None
    /\ target_pane_id[1].tag = "Terminal"

Rendered == lastEvent.kind = "render"
\* the row each line of the overlay is meant for, in print order: title,
\* prompt, target (absent for QuitSession), help
IntendedRows ==
    LET rows == lastEvent.rows
    IN  <<rows \div 2 - 3, rows \div 2 - 1>>
        \o (IF action = "QuitSession" THEN <<>> ELSE <<rows \div 2 + 1>>)
        \o <<rows - 1>>

\* C20: whatever rows and cols render is given and whatever the state, it
\* computes every line's row coordinate without unsigned underflow: each
\* line is printed, and the row passed to the host is the intended
\* non-negative value (rows/2 - 3, rows/2 - 1, rows/2 + 1, rows - 1).
C20_RowsNeverUnderflow ==
    Rendered =>
        /\ Len(calls) = Len(IntendedRows)
        /\ \A i \in 1..Len(calls) :
              /\ calls[i].fn = "print_text_with_coordinates"
              /\ IntendedRows[i] >= 0
              /\ calls[i].arg[1].y = usize(IntendedRows[i])
\* from six rows up the rows are the intended ones
C20_SixRowsSuffice ==
    (Rendered /\ lastEvent.rows >= 6) =>
        /\ Len(calls) = Len(IntendedRows)
        /\ \A i \in 1..Len(calls) :
              /\ calls[i].fn = "print_text_with_coordinates"
              /\ calls[i].arg[1].y = usize(IntendedRows[i])

====
